---- MODULE Spec2Model ----
(***************************************************************************)
(* Model of multiplayer-server.js: the in-memory game store `games`, the   *)
(* per-socket `_chessRole` tag, and the handlers createGame, joinGame,     *)
(* handleMove and cleanupConnection, driven by the 'connection',           *)
(* 'message' and 'close' events of the WebSocket server.                   *)
(***************************************************************************)
EXTENDS Integers, Sequences, FiniteSets, TLC

\* Bounds of the model.
MaxPly == 2             \* half-moves after which the engine accepts no move

Conns == {"c1", "c2", "c3"}         \* WebSocket objects
GameIds == {"G1", "G2"}             \* values generateGameId can return
Missing == "undefined"              \* a gameId field absent from the message
Null == "null"                      \* JS null in a players slot
Colors == {"w", "b"}
NoRole == [gameId |-> Missing, color |-> Null]   \* ws._chessRole never set
MoveInputs == {"legal", "illegal", "fault"}      \* what {from,to,promotion} is to the engine
BadInputs == {"invalid_json", "unknown_type", "json_null"}

\* What one run explores: three sockets sharing one id, or two sockets and
\* two ids.
Scopes == { [conns |-> {"c1", "c2", "c3"}, ids |-> {"G1"}],
            [conns |-> {"c1", "c2"}, ids |-> {"G1", "G2"}] }

VARIABLES
    games,        \* the Map gameId -> game
    chessRole,    \* ws._chessRole of every socket
    readyState,   \* ws.readyState of every socket
    occupants,    \* history: per live game and seat, every socket put in that slot
    last,         \* history: the event handled by the last step
    sent,         \* history: the ws.send calls of the last step, in order
    scope,        \* the sockets and ids this run draws its events from
    running       \* the server process is alive

vars == <<games, chessRole, readyState, occupants, last, sent, scope, running>>

----------------------------------------------------------------------------
\* chess.js, seen through the calls the server makes.

InitChess == [ply |-> 0, lastMove |-> Null]

Turn(chess) == IF chess.ply % 2 = 0 THEN "w" ELSE "b"

Fen(chess) == <<"fen", chess.ply, Turn(chess)>>

IsGameOver(chess) == chess.ply >= MaxPly

\* chess.move(...): a move object and a new position, null, or an exception.
ChessMove(chess, mv) ==
    IF mv = "fault" THEN [status |-> "throw", chess |-> chess]
    ELSE IF mv = "illegal" \/ IsGameOver(chess)
         THEN [status |-> "null", chess |-> chess]
         ELSE [status |-> "ok",
               chess |-> [ply |-> chess.ply + 1, lastMove |-> mv]]

----------------------------------------------------------------------------
\* Helpers of the server.

Other(color) == IF color = "w" THEN "b" ELSE "w"

HasGame(gameId) == gameId \in DOMAIN games

MapSet(map, key, value) ==
    [k \in DOMAIN map \cup {key} |-> IF k = key THEN value ELSE map[k]]

MapDelete(map, key) == [k \in DOMAIN map \ {key} |-> map[k]]

Msg(ws, payload) == [to |-> ws, msg |-> payload]

SafeSend(out, ws, payload) ==
    IF ws # Null /\ readyState[ws] = "OPEN"
    THEN Append(out, Msg(ws, payload))
    ELSE out

Error(message) == [type |-> "error", message |-> message]

\* Mutation: the creator is seated as black.
NewGameCreatorBlack(ws) ==
    [chess |-> InitChess, players |-> [w |-> Null, b |-> ws]]

NewGame(ws) ==
    [chess |-> InitChess, players |-> [w |-> ws, b |-> Null]]

Event(op, ws, gameId) == [op |-> op, conn |-> ws, gameId |-> gameId]

NoOccupants == [w |-> {}, b |-> {}]

Receiving(ws) == running /\ readyState[ws] \in {"OPEN", "CLOSING"}

----------------------------------------------------------------------------
Init ==
    /\ games = <<>>
    /\ chessRole = [c \in Conns |-> NoRole]
    /\ readyState = [c \in Conns |-> "CONNECTING"]
    /\ occupants = [g \in GameIds |-> NoOccupants]
    /\ last = Event("init", Null, Missing)
    /\ sent = <<>>
    /\ scope \in Scopes
    /\ running = TRUE

\* wss.on('connection'): the handlers are registered and 'connected' is sent.
Connect(ws) ==
    /\ running
    /\ readyState[ws] = "CONNECTING"
    /\ readyState' = [readyState EXCEPT ![ws] = "OPEN"]
    /\ sent' = <<Msg(ws, [type |-> "connected"])>>
    /\ last' = Event("connection", ws, Missing)
    /\ UNCHANGED <<games, chessRole, occupants, scope, running>>

\* The transport starts closing a socket: readyState leaves OPEN before the
\* 'close' event is emitted.
Disconnect(ws) ==
    /\ running
    /\ readyState[ws] = "OPEN"
    /\ readyState' = [readyState EXCEPT ![ws] = "CLOSING"]
    /\ sent' = <<>>
    /\ last' = Event("disconnect", ws, Missing)
    /\ UNCHANGED <<games, chessRole, occupants, scope, running>>

\* Mutation: the role is not consulted, every session with a free seat is
\* dropped.
CleanupGamesReaper(ws) ==
    [g \in {k \in DOMAIN games : \A c \in Colors : games[k].players[c] # Null}
       |-> games[g]]

\* Mutation: the slot is cleared without comparing it with the socket.
CleanupGamesUnguarded(ws) ==
    LET role == chessRole[ws] IN
    IF role = NoRole THEN games
    ELSE IF ~HasGame(role.gameId) THEN games
    ELSE LET game == games[role.gameId]
             cleared == [game EXCEPT !.players[role.color] = Null]
         IN  IF cleared.players.w = Null /\ cleared.players.b = Null
             THEN MapDelete(games, role.gameId)
             ELSE MapSet(games, role.gameId, cleared)

\* Mutation: the session is deleted as soon as one of its players leaves.
CleanupGamesDropsSession(ws) ==
    LET role == chessRole[ws] IN
    IF role = NoRole THEN games
    ELSE IF ~HasGame(role.gameId) THEN games
    ELSE IF games[role.gameId].players[role.color] = ws
         THEN MapDelete(games, role.gameId)
         ELSE games

\* 'close' event: readyState is CLOSED when cleanupConnection runs.
CleanupGames(ws) ==
    LET role == chessRole[ws] IN
    IF role = NoRole THEN games
    ELSE IF ~HasGame(role.gameId) THEN games
    ELSE LET game == games[role.gameId]
             cleared == IF game.players[role.color] = ws
                        THEN [game EXCEPT !.players[role.color] = Null]
                        ELSE game
         IN  IF cleared.players.w = Null /\ cleared.players.b = Null
             THEN MapDelete(games, role.gameId)
             ELSE MapSet(games, role.gameId, cleared)

Close(ws) ==
    /\ running
    /\ readyState[ws] \in {"OPEN", "CLOSING"}
    /\ readyState' = [readyState EXCEPT ![ws] = "CLOSED"]
    /\ games' = CleanupGames(ws)
    /\ sent' = <<>>
    /\ last' = Event("close", ws, chessRole[ws].gameId)
    /\ occupants' = [g \in GameIds |-> IF g \in DOMAIN games' THEN occupants[g] ELSE NoOccupants]
    /\ UNCHANGED <<chessRole, scope, running>>

\* A second 'close' event for a socket whose close was already handled.
CloseAgain(ws) ==
    /\ running
    /\ readyState[ws] = "CLOSED"
    /\ games' = CleanupGames(ws)
    /\ sent' = <<>>
    /\ last' = Event("close_again", ws, chessRole[ws].gameId)
    /\ occupants' = [g \in GameIds |-> IF g \in DOMAIN games' THEN occupants[g] ELSE NoOccupants]
    /\ UNCHANGED <<chessRole, readyState, scope, running>>

----------------------------------------------------------------------------
\* generateGameId(): six random symbols, not checked against `games`.
GenerateGameId == scope.ids

GameCreated(gameId, chess) ==
    [type |-> "game_created", gameId |-> gameId, color |-> "w", fen |-> Fen(chess)]

CreateGame(ws) ==
    /\ \E gameId \in GenerateGameId :
          LET game == NewGame(ws) IN
          /\ games' = MapSet(games, gameId, game)
          /\ chessRole' = [chessRole EXCEPT ![ws] = [gameId |-> gameId, color |-> "w"]]
          /\ sent' = SafeSend(<<>>, ws, GameCreated(gameId, game.chess))
          /\ occupants' = [occupants EXCEPT ![gameId] = [w |-> {ws}, b |-> {}]]
          /\ last' = Event("create_game", ws, gameId)
    /\ UNCHANGED <<readyState, scope, running>>

\* Mutation: black is handed out while either slot is free.
JoinColorAlwaysBlack(game) ==
    IF game.players.b = Null \/ game.players.w = Null THEN "b" ELSE Null

\* Mutation: no "two players" check, the white slot is the fallback.
JoinColorNoFullCheck(game) ==
    IF game.players.b = Null THEN "b" ELSE "w"

\* The seat joinGame gives out, Null when both slots are taken.
JoinColor(game) ==
    IF game.players.b = Null THEN "b"
    ELSE IF game.players.w = Null THEN "w"
    ELSE Null

GameJoined(gameId, color, chess) ==
    [type |-> "game_joined", gameId |-> gameId, color |-> color, fen |-> Fen(chess)]

\* Mutation: the notification names the seat of its receiver.
OpponentJoinedOwnSeat(gameId, color) ==
    [type |-> "opponent_joined", gameId |-> gameId, opponentColor |-> Other(color)]

OpponentJoined(gameId, color) ==
    [type |-> "opponent_joined", gameId |-> gameId, opponentColor |-> color]

\* Mutation: ws._chessRole is written before the seats are examined.
JoinGameBindsFirst(ws, gameId) ==
    IF ~HasGame(gameId)
    THEN /\ sent' = SafeSend(<<>>, ws, Error("Game not found"))
         /\ UNCHANGED <<games, chessRole, occupants>>
    ELSE LET game == games[gameId]
             color == JoinColor(game)
         IN  IF color = Null
             THEN /\ sent' = SafeSend(<<>>, ws, Error("Game already has two players"))
                  /\ chessRole' = [chessRole EXCEPT
                                     ![ws] = [gameId |-> gameId, color |-> "b"]]
                  /\ UNCHANGED <<games, occupants>>
             ELSE LET joined == [game EXCEPT !.players[color] = ws]
                      opp == joined.players[Other(color)]
                  IN  /\ games' = MapSet(games, gameId, joined)
                      /\ chessRole' = [chessRole EXCEPT
                                         ![ws] = [gameId |-> gameId, color |-> color]]
                      /\ occupants' = [occupants EXCEPT ![gameId][color] = @ \cup {ws}]
                      /\ sent' = SafeSend(
                                   SafeSend(<<>>, ws, GameJoined(gameId, color, joined.chess)),
                                   opp, OpponentJoined(gameId, color))

JoinGame(ws, gameId) ==
    IF ~HasGame(gameId)
    THEN /\ sent' = SafeSend(<<>>, ws, Error("Game not found"))
         /\ UNCHANGED <<games, chessRole, occupants>>
    ELSE LET game == games[gameId]
             color == JoinColor(game)
         IN  IF color = Null
             THEN /\ sent' = SafeSend(<<>>, ws, Error("Game already has two players"))
                  /\ UNCHANGED <<games, chessRole, occupants>>
             ELSE LET joined == [game EXCEPT !.players[color] = ws]
                      opp == joined.players[Other(color)]
                  IN  /\ games' = MapSet(games, gameId, joined)
                      /\ chessRole' = [chessRole EXCEPT
                                         ![ws] = [gameId |-> gameId, color |-> color]]
                      /\ occupants' = [occupants EXCEPT ![gameId][color] = @ \cup {ws}]
                      /\ sent' = SafeSend(
                                   SafeSend(<<>>, ws, GameJoined(gameId, color, joined.chess)),
                                   opp, OpponentJoined(gameId, color))

----------------------------------------------------------------------------
\* handleMove's checks, in the order of the code.
\* Mutation: only the presence of a role is tested, not its gameId.
NotPartOfGameRoleOnly(role, gameId) == role = NoRole

NotPartOfGame(role, gameId) == role = NoRole \/ role.gameId # gameId

\* Mutation: the turn check is missing.
NotYourTurnSkipped(role, game) == FALSE

\* Mutation: the comparison is inverted.
NotYourTurnInverted(role, game) == role.color = Turn(game.chess)

NotYourTurn(role, game) == role.color # Turn(game.chess)

MoveMade(gameId, chess) ==
    [type |-> "move_made", gameId |-> gameId, fen |-> Fen(chess),
     lastMove |-> chess.lastMove, turn |-> Turn(chess),
     isGameOver |-> IsGameOver(chess)]

\* Mutation: only the black slot is notified.
BroadcastBlackOnly(players, payload) == SafeSend(<<>>, players.b, payload)

\* safeSend(w, payload); safeSend(b, payload)
Broadcast(players, payload) ==
    SafeSend(SafeSend(<<>>, players.w, payload), players.b, payload)

HandleMove(ws, gameId, mv) ==
    IF ~HasGame(gameId)
    THEN /\ sent' = SafeSend(<<>>, ws, Error("Game not found"))
         /\ UNCHANGED games
    ELSE LET game == games[gameId]
             role == chessRole[ws]
         IN
         IF NotPartOfGame(role, gameId)
         THEN /\ sent' = SafeSend(<<>>, ws, Error("You are not part of this game"))
              /\ UNCHANGED games
         ELSE IF NotYourTurn(role, game)
         THEN /\ sent' = SafeSend(<<>>, ws, Error("Not your turn"))
              /\ UNCHANGED games
         ELSE LET res == ChessMove(game.chess, mv) IN
              CASE res.status = "throw" ->
                     /\ sent' = SafeSend(<<>>, ws, Error("Move error"))
                     /\ UNCHANGED games
                [] res.status = "null" ->
                     /\ sent' = SafeSend(<<>>, ws, Error("Illegal move"))
                     /\ UNCHANGED games
                [] res.status = "ok" ->
                     /\ games' = MapSet(games, gameId, [game EXCEPT !.chess = res.chess])
                     /\ sent' = Broadcast(game.players, MoveMade(gameId, res.chess))

----------------------------------------------------------------------------
\* ws.on('message'): parse, then dispatch on msg.type.
RecvCreate(ws) ==
    /\ Receiving(ws)
    /\ CreateGame(ws)

RecvJoin(ws, gameId) ==
    /\ Receiving(ws)
    /\ last' = Event("join_game", ws, gameId)
    /\ IF gameId = Missing
       THEN /\ sent' = SafeSend(<<>>, ws, Error("Missing gameId"))
            /\ UNCHANGED <<games, chessRole, occupants>>
       ELSE JoinGame(ws, gameId)
    /\ UNCHANGED <<readyState, scope, running>>

RecvMove(ws, gameId, mv) ==
    /\ Receiving(ws)
    /\ last' = Event("make_move", ws, gameId)
    /\ HandleMove(ws, gameId, mv)
    /\ UNCHANGED <<chessRole, readyState, occupants, scope, running>>

\* `const { type } = msg` throws a TypeError when the text parses to null:
\* nothing catches it, the process exits and takes the store and every
\* socket with it. Any other text ends in an error reply.
RecvBad(ws, kind) ==
    /\ Receiving(ws)
    /\ last' = Event(kind, ws, Missing)
    /\ IF kind = "json_null"
       THEN /\ running' = FALSE
            /\ games' = <<>>
            /\ chessRole' = [c \in Conns |-> NoRole]
            /\ readyState' = [c \in Conns |-> "CLOSED"]
            /\ occupants' = [g \in GameIds |-> NoOccupants]
            /\ sent' = <<>>
       ELSE /\ sent' = SafeSend(<<>>, ws,
                        Error(IF kind = "invalid_json" THEN "Invalid JSON"
                              ELSE "Unknown message type"))
            /\ UNCHANGED <<games, chessRole, readyState, occupants, running>>
    /\ UNCHANGED scope

Next ==
    \/ \E ws \in scope.conns : Connect(ws)
    \/ \E ws \in scope.conns : Disconnect(ws)
    \/ \E ws \in scope.conns : Close(ws)
    \/ \E ws \in scope.conns : CloseAgain(ws)
    \/ \E ws \in scope.conns : RecvCreate(ws)
    \/ \E ws \in scope.conns, gameId \in scope.ids \cup {Missing} :
          RecvJoin(ws, gameId)
    \/ \E ws \in scope.conns, gameId \in scope.ids \cup {Missing}, mv \in MoveInputs :
          RecvMove(ws, gameId, mv)
    \/ \E ws \in scope.conns, kind \in BadInputs : RecvBad(ws, kind)

Spec == Init /\ [][Next]_vars

----------------------------------------------------------------------------
\* Vocabulary of the properties.

\* What the sender of the last event gets when the handler replies once.
Reply(ws, payload) == IF readyState[ws] = "OPEN" THEN <<Msg(ws, payload)>> ELSE <<>>

IsOpen(c) == c # Null /\ readyState[c] = "OPEN"

Slots(game) == <<game.players.w, game.players.b>>

StoreUnchanged == games' = games /\ chessRole' = chessRole

BoundTo(ws, gameId) == chessRole[ws] # NoRole /\ chessRole[ws].gameId = gameId

\* C1: a make_move from a connection bound to the seat that is not to move
\* is answered with "Not your turn" to the sender only; the registry, the
\* rules states, the seat slots and the role bindings stay as they were and
\* nobody receives move_made.
C1_NotYourTurn ==
    [][ ( /\ last'.op = "make_move"
          /\ HasGame(last'.gameId)
          /\ BoundTo(last'.conn, last'.gameId)
          /\ chessRole[last'.conn].color # Turn(games[last'.gameId].chess) )
        => /\ StoreUnchanged
           /\ sent' = Reply(last'.conn, Error("Not your turn")) ]_vars

\* A black player, with white seated and open, was just told it is not its turn.
C1_Witness ==
    /\ last.op = "make_move"
    /\ sent = <<Msg(last.conn, Error("Not your turn"))>>
    /\ HasGame(last.gameId)
    /\ games[last.gameId].players.b = last.conn
    /\ IsOpen(games[last.gameId].players.w)
    /\ games[last.gameId].players.w # last.conn

\* C2: when a make_move is accepted, the same move_made payload goes to the
\* connection in the white slot and to the one in the black slot, each only
\* if it is there and open, and to nobody else; the fen of the payload is
\* the fen of the stored position after the move.
C2_Broadcast ==
    [][ ( /\ last'.op = "make_move"
          /\ HasGame(last'.gameId)
          /\ games' # games )
        => LET g == last'.gameId
               live == SelectSeq(Slots(games[g]), IsOpen)
           IN  /\ g \in DOMAIN games'
               /\ games'[g].players = games[g].players
               /\ Len(sent') = Len(live)
               /\ \A i \in 1..Len(live) :
                     /\ sent'[i].to = live[i]
                     /\ sent'[i].msg.type = "move_made"
                     /\ sent'[i].msg.gameId = g
                     /\ sent'[i].msg.fen = Fen(games'[g].chess)
                     /\ sent'[i].msg.turn = Turn(games'[g].chess)
                     /\ sent'[i].msg = sent'[1].msg ]_vars

\* Both seats hold different open connections and both got the move.
C2_Witness ==
    /\ last.op = "make_move"
    /\ Len(sent) = 2
    /\ sent[1].msg.type = "move_made"
    /\ sent[1].to # sent[2].to

\* C3: a join_game on a session with a free slot seats the joiner as black
\* when the black slot is empty and as white otherwise; the first join of a
\* session seats black. The slot and the joiner's role binding name that
\* seat, the other slot and the position are untouched, and the joiner gets
\* game_joined with the seat and the current fen.
C3_JoinSeat ==
    [][ ( /\ last'.op = "join_game"
          /\ HasGame(last'.gameId)
          /\ \E c \in Colors : games[last'.gameId].players[c] = Null )
        => LET g == last'.gameId
               ws == last'.conn
               game == games[g]
               seat == IF game.players.b = Null THEN "b" ELSE "w"
           IN  /\ occupants[g].b = {} => seat = "b"
               /\ g \in DOMAIN games'
               /\ games'[g].players[seat] = ws
               /\ games'[g].players[Other(seat)] = game.players[Other(seat)]
               /\ games'[g].chess = game.chess
               /\ chessRole'[ws] = [gameId |-> g, color |-> seat]
               /\ readyState[ws] = "OPEN" =>
                     /\ Len(sent') >= 1
                     /\ sent'[1] = Msg(ws, [type |-> "game_joined", gameId |-> g,
                                            color |-> seat, fen |-> Fen(game.chess)])
      ]_vars

\* A connection has just taken the white seat of a session whose black seat
\* is held by another connection, after a move was played.
C3_Witness ==
    /\ last.op = "join_game"
    /\ Len(sent) >= 1
    /\ sent[1].msg.type = "game_joined"
    /\ sent[1].msg.color = "w"
    /\ games[last.gameId].players.b # last.conn
    /\ games[last.gameId].chess.ply > 0

\* C4: a join_game on a session whose two slots are both taken changes
\* nothing in the registry, the sessions or the role bindings, and the only
\* message is "Game already has two players" to the joiner.
C4_JoinFull ==
    [][ ( /\ last'.op = "join_game"
          /\ HasGame(last'.gameId)
          /\ \A c \in Colors : games[last'.gameId].players[c] # Null )
        => /\ StoreUnchanged
           /\ sent' = Reply(last'.conn, Error("Game already has two players")) ]_vars

\* A third connection was refused while both seat holders are open.
C4_Witness ==
    /\ last.op = "join_game"
    /\ sent = <<Msg(last.conn, Error("Game already has two players"))>>
    /\ HasGame(last.gameId)
    /\ \A c \in Colors :
          /\ IsOpen(games[last.gameId].players[c])
          /\ games[last.gameId].players[c] # last.conn

\* C5: right after create_game the registry has, under the returned id, a
\* session with the creator in the white slot, the black slot empty and the
\* initial position; the creator is bound to (id, white) and game_created
\* goes to the creator only.
C5_Created ==
    last.op = "create_game"
    => /\ HasGame(last.gameId)
       /\ games[last.gameId].players = [w |-> last.conn, b |-> Null]
       /\ games[last.gameId].chess = InitChess
       /\ chessRole[last.conn] = [gameId |-> last.gameId, color |-> "w"]
       /\ sent = Reply(last.conn, [type |-> "game_created", gameId |-> last.gameId,
                                   color |-> "w", fen |-> Fen(InitChess)])

\* A second session was just created while another one is in the registry.
C5_Witness ==
    /\ last.op = "create_game"
    /\ Len(sent) = 1
    /\ sent[1].msg.type = "game_created"
    /\ \E g \in DOMAIN games : g # last.gameId

\* C6: the id create_game files the new session under is not a key of the
\* registry when the session is created.
C6_FreshId ==
    [][ last'.op = "create_game" => ~HasGame(last'.gameId) ]_vars

\* C7: once the connections that sat in a session's two seats (different
\* connections in the white and in the black seat) have all closed and
\* their close events were handled, the session is not in the registry (so
\* a join_game on its id finds no game).
C7_GoneWhenBothClosed ==
    \A g \in DOMAIN games :
       ~ ( /\ occupants[g].w # {}
           /\ occupants[g].b # {}
           /\ occupants[g].w \cap occupants[g].b = {}
           /\ \A c \in occupants[g].w \cup occupants[g].b : readyState[c] = "CLOSED" )

\* C8: every session in the registry has a non-empty slot, and a session
\* leaves the registry (its key is deleted or its object is replaced) only
\* in the close step of a connection whose slot was the last one taken.
C8_RemovedOnlyByClose ==
    [][ /\ \A g \in DOMAIN games' : \E c \in Colors : games'[g].players[c] # Null
        /\ \A g \in DOMAIN games :
              ( \/ g \notin DOMAIN games'
                \/ last'.op = "create_game" /\ last'.gameId = g )
              => /\ last'.op = "close"
                 /\ last'.gameId = g
                 /\ \A c \in Colors :
                       games[g].players[c] \in {Null, last'.conn} ]_vars

\* C9: a connection is in at most one slot of at most one session, and a
\* role binding, once set, is never set to another (gameId, seat).
C9_OneSeatForLife ==
    [][ /\ \A ws \in Conns :
              Cardinality({ <<g, c>> \in (DOMAIN games') \X Colors :
                              games'[g].players[c] = ws }) <= 1
        /\ \A ws \in Conns :
              chessRole[ws] # NoRole => chessRole'[ws] = chessRole[ws] ]_vars

\* C10: no slot of a session in the registry holds a connection whose close
\* event has been handled.
C10_SlotsLive ==
    \A g \in DOMAIN games : \A c \in Colors :
       games[g].players[c] # Null => readyState[games[g].players[c]] # "CLOSED"

----------------------------------------------------------------------------
CloseOps == {"close", "close_again"}

MessageOps == {"create_game", "join_game", "make_move"} \cup BadInputs

ErrorTexts ==
    {"Game not found", "Game already has two players",
     "You are not part of this game", "Not your turn", "Illegal move",
     "Move error", "Missing gameId", "Unknown message type", "Invalid JSON"}

\* The seat a join_game is about to hand out in a session with a free slot.
FreeSeat(game) == IF game.players.b = Null THEN "b" ELSE "w"

Joinable(gameId) ==
    HasGame(gameId) /\ \E c \in Colors : games[gameId].players[c] = Null

\* C11: the close event of a connection that never got a role binding (it
\* never sent create_game nor a successful join_game, whatever else it
\* sent) leaves the registry, the seat slots and the rules states as they
\* were.
C11_CloseWithoutRole ==
    [][ ( /\ last'.op \in CloseOps
          /\ chessRole[last'.conn] = NoRole )
        => games' = games ]_vars

\* A connection without role binding closed while a session with a free
\* seat was in the registry.
C11_Witness ==
    /\ last.op = "close"
    /\ chessRole[last.conn] = NoRole
    /\ \E g \in DOMAIN games : games[g].players.b = Null

\* C12: a second cleanup of a connection whose close was already handled
\* changes nothing in the registry, the sessions and the role bindings and
\* does not fail, whatever the other connections did in between.
C12_CloseIdempotent ==
    [][ last'.op = "close_again"
        => /\ StoreUnchanged
           /\ running'
           /\ sent' = <<>> ]_vars

\* The second cleanup ran after another connection took the seat the
\* closed one had left.
C12_Witness ==
    /\ last.op = "close_again"
    /\ HasGame(last.gameId)
    /\ games[last.gameId].players[chessRole[last.conn].color] \notin {Null, last.conn}

\* C13: a step that sends an error message handles an inbound message,
\* sends nothing but that one error, to the sender of the message, with one
\* of the nine texts, and leaves the registry, the sessions, the role
\* bindings and the sockets as they were.
C13_ErrorsAreLocal ==
    [][ \A i \in 1..Len(sent') :
           sent'[i].msg.type = "error"
           => /\ last'.op \in MessageOps
              /\ sent' = <<Msg(last'.conn, sent'[i].msg)>>
              /\ sent'[i].msg.message \in ErrorTexts
              /\ StoreUnchanged
              /\ readyState' = readyState
              /\ running' ]_vars

\* The player to move was refused an illegal move while the opponent is
\* seated and open.
C13_Witness ==
    /\ last.op = "make_move"
    /\ sent = <<Msg(last.conn, Error("Illegal move"))>>
    /\ HasGame(last.gameId)
    /\ \E c \in Colors :
          /\ games[last.gameId].players[c] = last.conn
          /\ IsOpen(games[last.gameId].players[Other(c)])
          /\ games[last.gameId].players[Other(c)] # last.conn

\* C14: an inbound message that is not a well-formed create_game, join_game
\* or make_move (text that is not JSON, JSON null, an unknown or missing
\* type, join_game without gameId) is answered with one error to the
\* sender, changes nothing, and leaves the server running.
C14_MalformedRejected ==
    [][ ( \/ last'.op \in BadInputs
          \/ last'.op = "join_game" /\ last'.gameId = Missing )
        => /\ StoreUnchanged
           /\ readyState' = readyState
           /\ running'
           /\ \E text \in ErrorTexts :
                 sent' = Reply(last'.conn, Error(text)) ]_vars

\* C15: a join_game that seats the joiner sends opponent_joined, naming
\* the joiner's seat, to the connection in the opposite slot exactly when
\* that slot holds an open connection; no other step and no other receiver
\* gets an opponent_joined.
C15_OpponentJoined ==
    [][ LET notes == SelectSeq(sent', LAMBDA m : m.msg.type = "opponent_joined")
        IN  IF last'.op = "join_game" /\ Joinable(last'.gameId)
            THEN LET g == last'.gameId
                     seat == FreeSeat(games[g])
                     opp == games[g].players[Other(seat)]
                 IN  notes = IF IsOpen(opp)
                             THEN <<Msg(opp, [type |-> "opponent_joined",
                                              gameId |-> g,
                                              opponentColor |-> seat])>>
                             ELSE <<>>
            ELSE notes = <<>> ]_vars

\* The seated creator was told that another connection joined as black.
C15_Witness ==
    /\ last.op = "join_game"
    /\ Len(sent) = 2
    /\ sent[2].msg.type = "opponent_joined"
    /\ sent[2].msg.opponentColor = "b"
    /\ sent[2].to # last.conn

\* C16: handleMove's checks come in the order lookup, participation, turn,
\* legality, and the first that fails decides the reply: an unknown id gives
\* "Game not found"; an existing id with no role binding, or a binding for
\* another id, gives "You are not part of this game"; then "Not your turn";
\* only then the engine's verdict. Every refusal leaves the store as it was.
C16_CheckOrder ==
    [][ last'.op = "make_move"
        => LET g == last'.gameId
               ws == last'.conn
           IN  IF ~HasGame(g)
               THEN StoreUnchanged /\ sent' = Reply(ws, Error("Game not found"))
               ELSE IF ~BoundTo(ws, g)
               THEN /\ StoreUnchanged
                    /\ sent' = Reply(ws, Error("You are not part of this game"))
               ELSE IF chessRole[ws].color # Turn(games[g].chess)
               THEN StoreUnchanged /\ sent' = Reply(ws, Error("Not your turn"))
               ELSE \/ games' # games
                    \/ /\ StoreUnchanged
                       /\ sent' \in {Reply(ws, Error("Illegal move")),
                                     Reply(ws, Error("Move error"))} ]_vars

\* A connection bound to one session was refused a move in another one.
C16_Witness ==
    /\ last.op = "make_move"
    /\ sent = <<Msg(last.conn, Error("You are not part of this game"))>>
    /\ HasGame(last.gameId)
    /\ chessRole[last.conn] # NoRole
    /\ HasGame(chessRole[last.conn].gameId)

\* C17: the close event of connection c changes at most the slot named by
\* c's role binding, from c to empty; a slot holding another connection,
\* every other session, every rules state and every role binding stay as
\* they were, and a session is deleted only when it is c's and the cleared
\* slot was its last occupied one.
C17_CloseFrame ==
    [][ last'.op \in CloseOps
        => LET ws == last'.conn
               role == chessRole[ws]
           IN  /\ chessRole' = chessRole
               /\ DOMAIN games' \subseteq DOMAIN games
               /\ \A g \in DOMAIN games :
                     IF g \in DOMAIN games'
                     THEN /\ games'[g].chess = games[g].chess
                          /\ \A c \in Colors :
                                \/ games'[g].players[c] = games[g].players[c]
                                \/ /\ g = role.gameId
                                   /\ c = role.color
                                   /\ games[g].players[c] = ws
                                   /\ games'[g].players[c] = Null
                     ELSE /\ g = role.gameId
                          /\ games[g].players[role.color] = ws
                          /\ games[g].players[Other(role.color)] = Null ]_vars

\* A connection closed while the slot its role binding names was held by
\* another connection, which kept the seat.
C17_Witness ==
    /\ last.op = "close"
    /\ HasGame(last.gameId)
    /\ games[last.gameId].players[chessRole[last.conn].color] \notin {Null, last.conn}

\* C18: handlers run one at a time. A join_game never changes a slot that
\* holds a connection; on a session with one free seat it seats the joiner
\* there; and a join_game that comes right after another connection's
\* successful join_game on the same id is refused with "Game already has
\* two players" and leaves the first joiner in its seat.
C18_JoinRace ==
    [][ last'.op = "join_game"
        => LET g == last'.gameId
               ws == last'.conn
           IN  /\ \A k \in DOMAIN games : \A c \in Colors :
                     games[k].players[c] # Null
                     => /\ k \in DOMAIN games'
                        /\ games'[k].players[c] = games[k].players[c]
               /\ Joinable(g)
                  => /\ games'[g].players[FreeSeat(games[g])] = ws
                     /\ chessRole'[ws] = [gameId |-> g, color |-> FreeSeat(games[g])]
               /\ ( /\ last.op = "join_game"
                    /\ last.gameId = g
                    /\ last.conn # ws
                    /\ Len(sent) >= 1
                    /\ sent[1].msg.type = "game_joined" )
                  => /\ StoreUnchanged
                     /\ sent' = Reply(ws, Error("Game already has two players"))
                     /\ games'[g].players[chessRole[last.conn].color] = last.conn
      ]_vars

\* A connection without a seat was refused while the black seat is held by
\* the connection that joined and white by the creator.
C18_Witness ==
    /\ last.op = "join_game"
    /\ sent = <<Msg(last.conn, Error("Game already has two players"))>>
    /\ chessRole[last.conn] = NoRole
    /\ HasGame(last.gameId)
    /\ occupants[last.gameId].b = {games[last.gameId].players.b}
    /\ occupants[last.gameId].w = {games[last.gameId].players.w}
    /\ games[last.gameId].players.b # games[last.gameId].players.w

\* C19: when a make_move changes the rules state of a session, its sender
\* is the connection held in that session's slot for the side to move.
C19_MoverHoldsSeat ==
    [][ ( /\ last'.op = "make_move"
          /\ HasGame(last'.gameId)
          /\ games' # games )
        => games[last'.gameId].players[Turn(games[last'.gameId].chess)]
              = last'.conn ]_vars

\* C20: the rules state of a session changes only by an accepted make_move
\* (or when create_game files a new session under its id); the mover is
\* bound to the seat to move, which is white in the initial position, the
\* turn passes to the other seat, and every move_made names that other seat
\* as turn.
C20_Alternation ==
    [][ \A g \in DOMAIN games \cap DOMAIN games' :
           games'[g].chess # games[g].chess
           => \/ last'.op = "create_game" /\ last'.gameId = g
              \/ /\ last'.op = "make_move"
                 /\ last'.gameId = g
                 /\ LET seat == chessRole[last'.conn].color
                    IN  /\ seat = Turn(games[g].chess)
                        /\ games[g].chess = InitChess => seat = "w"
                        /\ Turn(games'[g].chess) = Other(seat)
                        /\ \A i \in 1..Len(sent') :
                              /\ sent'[i].msg.type = "move_made"
                              /\ sent'[i].msg.turn = Other(seat) ]_vars

\* Black answered white's opening move and both players were told that it
\* is white's turn.
C20_Witness ==
    /\ last.op = "make_move"
    /\ Len(sent) = 2
    /\ sent[1].msg.type = "move_made"
    /\ sent[1].msg.turn = "w"
    /\ sent[2].msg.turn = "w"
    /\ games[last.gameId].chess.ply = 2
    /\ games[last.gameId].players.b = last.conn

====
